---- MODULE Spec2Model ----
(***************************************************************************)
(* Model of src/client/common/terminal/syncTerminalService.ts:             *)
(* ExecutionState (the completion watcher polling a lock file) and         *)
(* SynchronousTerminalService (the runner that wraps sendCommand).         *)
(*                                                                         *)
(* Text is modelled as a sequence of chunks (words and the significant     *)
(* characters space, quote, backslash); the contents of a lock file as the *)
(* set of marker substrings that occur in it, which is all that            *)
(* String.includes observes.  Every action is one turn of the JavaScript   *)
(* event loop: the handler of one event together with the promise          *)
(* continuations it makes runnable.                                        *)
(***************************************************************************)
EXTENDS Naturals, Integers, Sequences, FiniteSets, Bags, TLC

\* ------------------------------------------------------------------------
\* Bounds of the model
\* ------------------------------------------------------------------------

\* polls of one watcher whose readFile has not completed yet
MaxInFlight == 2
\* calls of SynchronousTerminalService.dispose()
MaxRunnerDispose == 1

\* the sendCommand calls made on the runner
Calls == {1, 2}
\* the call that is followed in full detail
Solo == {1}

\* ------------------------------------------------------------------------
\* enum State
\* ------------------------------------------------------------------------
notStarted == 0
started == 1
completed == 2
errored == 4

\* state & flag, for a single-bit flag
HasFlag(state, flag) == (state \div flag) % 2 = 1

\* state |= flag, for a single-bit flag
OrFlag(state, flag) == IF HasFlag(state, flag) THEN state ELSE state + flag

\* ------------------------------------------------------------------------
\* Text
\* ------------------------------------------------------------------------
SPACE == " "
QUOTE == "\""
BACKSLASH == "\\"
SLASH == "/"

RECURSIVE join(_, _)
\* Array.prototype.join
join(parts, sep) ==
    IF parts = <<>> THEN <<>>
    ELSE IF Len(parts) = 1 THEN parts[1]
    ELSE parts[1] \o sep \o join(Tail(parts), sep)

Contains(text, ch) == \E i \in 1..Len(text) : text[i] = ch

\* String.prototype.toCommandArgument: text with a space gets double quotes
toCommandArgument(text) ==
    IF text = <<>> THEN text
    ELSE IF Contains(text, SPACE) /\ text[1] # QUOTE /\ text[Len(text)] # QUOTE
         THEN <<QUOTE>> \o text \o <<QUOTE>>
         ELSE text

\* String.prototype.fileToCommandArgument: quoted, with forward slashes
fileToCommandArgument(text) ==
    LET q == toCommandArgument(text)
    IN  [i \in 1..Len(q) |-> IF q[i] = BACKSLASH THEN SLASH ELSE q[i]]

\* path.join(EXTENSION_ROOT_DIR, 'pythonFiles', 'shell_exec.py')
shellExecFile == <<"ext root", BACKSLASH, "pythonFiles", BACKSLASH, "shell_exec.py">>

\* the literal 'python'
PythonLiteral == <<"python">>

\* the file path of the temporary file created for call c
FilePath(c) ==
    IF c = 1 THEN <<"tmp", BACKSLASH, "my", SPACE, "1.log">>
    ELSE <<"tmp", SLASH, "2.log">>

\* inputs of sendCommand: command and args
Commands == {<<"build">>, <<"my", SPACE, "echo">>}
ArgLists == {<<>>, << <<"hi", SPACE, "there">> >>}

\* PythonInterpreter values; Undefined stands for undefined
Undefined == [path |-> <<>>, defined |-> FALSE]
Interpreter(p) == [path |-> p, defined |-> TRUE]
Overrides == {Undefined, Interpreter(<<"venv", SLASH, "python">>)}
ActiveInterpreters == {Undefined, Interpreter(<<"usr", SLASH, "python3">>)}

\* ------------------------------------------------------------------------
\* Lock file contents
\* ------------------------------------------------------------------------
Markers == {"START", "END", "FAIL"}

\* String.prototype.includes on the contents of the lock file
includes(source, marker) == marker \in source

\* ------------------------------------------------------------------------
\* Errors and promise outcomes
\* ------------------------------------------------------------------------
NoError == [kind |-> "none", text |-> <<>>]
Error(kind, text) == [kind |-> kind, text |-> text]

Pending == [status |-> "pending", error |-> NoError]
Resolved == [status |-> "resolved", error |-> NoError]
Rejected(err) == [status |-> "rejected", error |-> err]

VARIABLES
    pythonInterpreter,  \* SynchronousTerminalService.pythonInterpreter
    disposables,        \* SynchronousTerminalService.disposables
    terminalDisposed,   \* number of terminalService.dispose() calls
    pc,                 \* where each sendCommand call is suspended
    command,            \* each call's command
    args,               \* each call's args
    cancel,             \* each call's cancellation token
    result,             \* the promise each sendCommand call returned
    sent,               \* what terminalService.sendCommand received from each call
    lockFile,           \* each call's TemporaryFile
    watcher,            \* each call's ExecutionState
    inflight,           \* each watcher's polls awaiting readFile
    exit,               \* the path on which each sendCommand call left
    cancelledEarly,     \* the token was cancelled before END or FAIL was written
    disposeThrew        \* a call of the runner's dispose() has thrown

vars == <<pythonInterpreter, disposables, terminalDisposed, pc, command, args,
          cancel, result, sent, lockFile, watcher, inflight, exit, cancelledEarly,
          disposeThrew>>

\* ------------------------------------------------------------------------
\* Deferred<void> (createDeferred) and Cancellation.race
\* ------------------------------------------------------------------------

\* Deferred.resolve(): settles a pending promise, no effect on a settled one
DeferredResolve(d) == IF d.status = "pending" THEN Resolved ELSE d

\* Deferred.reject(reason)
DeferredReject(d, err) == IF d.status = "pending" THEN Rejected(err) ELSE d

\* promise.catch(noop): a rejection becomes a resolution
CatchNoop(p) == IF p.status = "rejected" THEN Resolved ELSE p

\* Cancellation.race(work, token): settles as work does, or returns without
\* error once the token is cancelled
CancellationRace(work, token) ==
    IF work.status # "pending" THEN work
    ELSE IF token = "requested" THEN Resolved
    ELSE Pending

\* ------------------------------------------------------------------------
\* TemporaryFile
\* ------------------------------------------------------------------------
NoFile == [created |-> FALSE, exists |-> FALSE, content |-> {},
           throws |-> FALSE, disposeCalls |-> 0]

\* fs.createTemporaryFile('.log'): a fresh empty file
NewFile(throws) == [created |-> TRUE, exists |-> TRUE, content |-> {},
                    throws |-> throws, disposeCalls |-> 0]

\* TemporaryFile.dispose(): deletes the file, or throws and leaves it
TemporaryFileDispose(f) ==
    [f EXCEPT !.disposeCalls = @ + 1,
              !.exists = IF f.throws THEN @ ELSE FALSE]

\* ------------------------------------------------------------------------
\* class ExecutionState
\* ------------------------------------------------------------------------
NoWatcher == [constructed |-> FALSE, state |-> notStarted, deferred |-> Pending,
              disposable |-> FALSE, timer |-> FALSE, disposeCalls |-> 0,
              hookRan |-> FALSE]

\* registerStateUpdate(): setInterval and the disposable that clears it
registerStateUpdate(w) == [w EXCEPT !.timer = TRUE, !.disposable = TRUE]

\* new ExecutionState(lockFile, fs, command)
NewExecutionState ==
    registerStateUpdate([NoWatcher EXCEPT !.constructed = TRUE])

\* ExecutionState.dispose()
dispose(w) ==
    IF w.disposable THEN [w EXCEPT !.timer = FALSE, !.disposable = FALSE]
    ELSE w

\* getLockFileState with FAIL setting only State.completed
getLockFileStateFailCompletes(source) ==
    LET s0 == notStarted
        s1 == IF includes(source, "START") THEN OrFlag(s0, started) ELSE s0
        s2 == IF includes(source, "END") THEN OrFlag(s1, completed) ELSE s1
        s3 == IF includes(source, "FAIL") THEN OrFlag(s2, completed) ELSE s2
    IN  s3

\* getLockFileState with END looked for only after START
getLockFileStateEndAfterStart(source) ==
    LET s0 == notStarted
        s1 == IF includes(source, "START") THEN OrFlag(s0, started) ELSE s0
        s2 == IF includes(source, "START") /\ includes(source, "END")
              THEN OrFlag(s1, completed) ELSE s1
        s3 == IF includes(source, "FAIL")
              THEN OrFlag(OrFlag(s2, completed), errored) ELSE s2
    IN  s3

\* getLockFileState(file), given the text readFile returned
getLockFileState(source) ==
    LET s0 == notStarted
        s1 == IF includes(source, "START") THEN OrFlag(s0, started) ELSE s0
        s2 == IF includes(source, "END") THEN OrFlag(s1, completed) ELSE s1
        s3 == IF includes(source, "FAIL")
              THEN OrFlag(OrFlag(s2, completed), errored) ELSE s2
    IN  s3

\* the error the watcher rejects with
CommandFailed(cmd, a) == Error("CommandFailed", join(<<cmd>> \o a, <<SPACE>>))

\* the interval callback without its resolve branch
StateUpdateNoResolve(w, source, cmd, a) ==
    LET state == getLockFileState(source)
        w1 == [w EXCEPT !.state = state]
    IN  IF HasFlag(state, errored)
        THEN [w1 EXCEPT !.deferred = DeferredReject(@, CommandFailed(cmd, a))]
        ELSE w1

\* the interval callback replacing the outcome instead of settling the deferred
StateUpdateOverwrite(w, source, cmd, a) ==
    LET state == getLockFileState(source)
        w1 == [w EXCEPT !.state = state]
    IN  IF HasFlag(state, errored)
        THEN [w1 EXCEPT !.deferred = Rejected(CommandFailed(cmd, a))]
        ELSE IF HasFlag(state, completed)
        THEN [w1 EXCEPT !.deferred = Resolved]
        ELSE w1

\* the callback adding the flags just read to the flags held before
StateUpdateAccumulates(w, source, cmd, a) ==
    LET read == getLockFileState(source)
        state == IF HasFlag(w.state, started) THEN OrFlag(read, started) ELSE read
        kept == IF HasFlag(w.state, completed) THEN OrFlag(state, completed)
                ELSE state
        w1 == [w EXCEPT !.state = kept]
    IN  IF HasFlag(read, errored)
        THEN [w1 EXCEPT !.deferred = DeferredReject(@, CommandFailed(cmd, a))]
        ELSE IF HasFlag(read, completed)
        THEN [w1 EXCEPT !.deferred = DeferredResolve(@)]
        ELSE w1

\* the body of the interval callback after readFile returned source
StateUpdate(w, source, cmd, a) ==
    LET state == getLockFileState(source)
        w1 == [w EXCEPT !.state = state]
    IN  IF HasFlag(state, errored)
        THEN [w1 EXCEPT !.deferred = DeferredReject(@, CommandFailed(cmd, a))]
        ELSE IF HasFlag(state, completed)
        THEN [w1 EXCEPT !.deferred = DeferredResolve(@)]
        ELSE w1

\* the hook disposing after every poll, settled or not
CompletedHookAlways(before, w) == [dispose(w) EXCEPT !.hookRan = TRUE]

\* a watcher without the finally hook on its completed future
CompletedHookNever(before, w) == w

\* _completed.promise.finally(() => this.dispose()): runs once, on settlement
CompletedHook(before, w) ==
    IF before.deferred.status = "pending" /\ w.deferred.status # "pending"
    THEN [dispose(w) EXCEPT !.hookRan = TRUE]
    ELSE w

\* ------------------------------------------------------------------------
\* class SynchronousTerminalService
\* ------------------------------------------------------------------------

Init ==
    /\ pythonInterpreter \in Overrides
    /\ disposables = <<>>
    /\ terminalDisposed = 0
    /\ pc = [c \in Calls |-> "idle"]
    /\ command = [c \in Calls |-> <<>>]
    /\ args = [c \in Calls |-> <<>>]
    /\ cancel = [c \in Calls |-> "none"]
    /\ result = [c \in Calls |-> Pending]
    /\ sent = [c \in Calls |-> <<>>]
    /\ lockFile = [c \in Calls |-> NoFile]
    /\ watcher = [c \in Calls |-> NoWatcher]
    /\ inflight = [c \in Calls |-> EmptyBag]
    /\ exit = [c \in Calls |-> "none"]
    /\ cancelledEarly = [c \in Calls |-> FALSE]
    /\ disposeThrew = FALSE

\* the command and args of the helper invocation sent for command cmd with
\* args a and the lock file at filePath
Invocation(cmd, a, filePath, pythonExec) ==
    [command |-> IF pythonExec.defined /\ pythonExec.path # <<>>
                 THEN pythonExec.path ELSE PythonLiteral,
     args |-> <<fileToCommandArgument(shellExecFile),
                fileToCommandArgument(cmd)>>
              \o a
              \o <<fileToCommandArgument(filePath)>>]

\* the helper invocation of call c
RewrittenInvocation(c, pythonExec) ==
    Invocation(command[c], args[c], FilePath(c), pythonExec)

\* the finally block without lockFile.dispose()
FinallySkipLockFile(c, w, outcome, path) ==
    /\ watcher' = [watcher EXCEPT ![c] = [dispose(w) EXCEPT !.disposeCalls = @ + 1]]
    /\ lockFile' = lockFile
    /\ result' = [result EXCEPT ![c] = outcome]
    /\ exit' = [exit EXCEPT ![c] = path]
    /\ pc' = [pc EXCEPT ![c] = "done"]

\* the finally block without state.dispose()
FinallySkipWatcher(c, w, outcome, path) ==
    /\ watcher' = [watcher EXCEPT ![c] = w]
    /\ lockFile' = [lockFile EXCEPT ![c] = TemporaryFileDispose(@)]
    /\ result' = [result EXCEPT ![c] =
                     IF lockFile[c].throws THEN Rejected(Error("DisposeError", <<>>))
                     ELSE outcome]
    /\ exit' = [exit EXCEPT ![c] = path]
    /\ pc' = [pc EXCEPT ![c] = "done"]

\* the finally block releasing through the runner's list: every watcher and
\* every lock file of the runner is disposed
FinallyDisposesEvery(c, w, outcome, path) ==
    /\ watcher' = [d \in Calls |->
                     IF d = c THEN [dispose(w) EXCEPT !.disposeCalls = @ + 1]
                     ELSE dispose(watcher[d])]
    /\ lockFile' = [d \in Calls |->
                      IF d = c \/ lockFile[d].created
                      THEN TemporaryFileDispose(lockFile[d]) ELSE lockFile[d]]
    /\ result' = [result EXCEPT ![c] =
                     IF lockFile[c].throws THEN Rejected(Error("DisposeError", <<>>))
                     ELSE outcome]
    /\ exit' = [exit EXCEPT ![c] = path]
    /\ pc' = [pc EXCEPT ![c] = "done"]

\* the finally block of sendCommand, entered with watcher w and the outcome
\* of the try block; sendCommand's promise settles
Finally(c, w, outcome, path) ==
    /\ watcher' = [watcher EXCEPT ![c] = [dispose(w) EXCEPT !.disposeCalls = @ + 1]]
    /\ lockFile' = [lockFile EXCEPT ![c] = TemporaryFileDispose(@)]
    /\ result' = [result EXCEPT ![c] =
                     IF lockFile[c].throws THEN Rejected(Error("DisposeError", <<>>))
                     ELSE outcome]
    /\ exit' = [exit EXCEPT ![c] = path]
    /\ pc' = [pc EXCEPT ![c] = "done"]

\* await Cancellation.race(() => state.completed.catch(noop), cancel): the
\* call leaves through the finally block once the race has settled
Race(c, w, token) ==
    LET raced == CancellationRace(CatchNoop(w.deferred), token)
    IN  IF raced.status = "pending"
        THEN /\ pc' = [pc EXCEPT ![c] = "race"]
             /\ watcher' = [watcher EXCEPT ![c] = w]
             /\ UNCHANGED <<lockFile, result, exit>>
        ELSE Finally(c, w, raced,
                     IF token = "requested" THEN "cancelled" ELSE "watcher")

\* sendCommand forwarding the command as a quoted command argument
SendCommandQuoted(c, cmd, a, withCancel) ==
    /\ pc[c] = "idle"
    /\ command' = [command EXCEPT ![c] = cmd]
    /\ args' = [args EXCEPT ![c] = a]
    /\ IF ~withCancel
       THEN /\ sent' = [sent EXCEPT ![c] =
                          Append(@, [command |-> fileToCommandArgument(cmd),
                                     args |-> a])]
            /\ pc' = [pc EXCEPT ![c] = "forward"]
            /\ UNCHANGED cancel
       ELSE /\ cancel' = [cancel EXCEPT ![c] = "armed"]
            /\ pc' = [pc EXCEPT ![c] = "createLockFile"]
            /\ UNCHANGED sent
    /\ UNCHANGED <<pythonInterpreter, disposables, terminalDisposed, result,
                   lockFile, watcher, inflight, exit, cancelledEarly, disposeThrew>>

\* sendCommand sending the helper invocation before it creates the lock file
SendCommandSendsFirst(c, cmd, a, withCancel) ==
    /\ pc[c] = "idle"
    /\ command' = [command EXCEPT ![c] = cmd]
    /\ args' = [args EXCEPT ![c] = a]
    /\ IF ~withCancel
       THEN /\ sent' = [sent EXCEPT ![c] = Append(@, [command |-> cmd, args |-> a])]
            /\ pc' = [pc EXCEPT ![c] = "forward"]
            /\ UNCHANGED cancel
       ELSE /\ cancel' = [cancel EXCEPT ![c] = "armed"]
            /\ pc' = [pc EXCEPT ![c] = "createLockFile"]
            /\ sent' = [sent EXCEPT ![c] =
                          Append(@, Invocation(cmd, a, FilePath(c), pythonInterpreter))]
    /\ UNCHANGED <<pythonInterpreter, disposables, terminalDisposed, result,
                   lockFile, watcher, inflight, exit, cancelledEarly, disposeThrew>>

\* sendCommand(command, args, cancel) is called
SendCommand(c, cmd, a, withCancel) ==
    /\ pc[c] = "idle"
    /\ command' = [command EXCEPT ![c] = cmd]
    /\ args' = [args EXCEPT ![c] = a]
    /\ IF ~withCancel
       THEN /\ sent' = [sent EXCEPT ![c] = Append(@, [command |-> cmd, args |-> a])]
            /\ pc' = [pc EXCEPT ![c] = "forward"]
            /\ UNCHANGED cancel
       ELSE /\ cancel' = [cancel EXCEPT ![c] = "armed"]
            /\ pc' = [pc EXCEPT ![c] = "createLockFile"]
            /\ UNCHANGED sent
    /\ UNCHANGED <<pythonInterpreter, disposables, terminalDisposed, result,
                   lockFile, watcher, inflight, exit,
                   cancelledEarly, disposeThrew>>

\* the forwarded terminalService.sendCommand settles
ForwardSettles(c, ok) ==
    /\ pc[c] = "forward"
    /\ pc' = [pc EXCEPT ![c] = "done"]
    /\ result' = [result EXCEPT ![c] =
                     IF ok THEN Resolved ELSE Rejected(Error("TerminalError", <<>>))]
    /\ exit' = [exit EXCEPT ![c] = "forwarded"]
    /\ UNCHANGED <<pythonInterpreter, disposables, terminalDisposed, command,
                   args, cancel, sent, lockFile, watcher, inflight,
                   cancelledEarly, disposeThrew>>

\* createLockFile() resolves; the watcher is constructed; with an interpreter
\* override the helper invocation is sent in the same turn
CreateLockFileResolves(c, throws) ==
    /\ pc[c] = "createLockFile"
    /\ lockFile' = [lockFile EXCEPT ![c] = NewFile(throws)]
    /\ disposables' = Append(disposables, c)
    /\ watcher' = [watcher EXCEPT ![c] = NewExecutionState]
    /\ IF pythonInterpreter.defined
       THEN /\ sent' = [sent EXCEPT ![c] =
                          Append(@, RewrittenInvocation(c, pythonInterpreter))]
            /\ pc' = [pc EXCEPT ![c] = "terminalSend"]
       ELSE /\ pc' = [pc EXCEPT ![c] = "getActiveInterpreter"]
            /\ UNCHANGED sent
    /\ UNCHANGED <<pythonInterpreter, terminalDisposed, command, args, cancel,
                   result, inflight, exit,
                   cancelledEarly, disposeThrew>>

\* the rejection with the watcher constructed ahead of createLockFile()
CreateLockFileRejectsWatching(c) ==
    /\ pc[c] = "createLockFile"
    /\ pc' = [pc EXCEPT ![c] = "done"]
    /\ watcher' = [watcher EXCEPT ![c] = NewExecutionState]
    /\ result' = [result EXCEPT ![c] = Rejected(Error("FileSystemError", <<>>))]
    /\ exit' = [exit EXCEPT ![c] = "createFailed"]
    /\ UNCHANGED <<pythonInterpreter, disposables, terminalDisposed, command,
                   args, cancel, sent, lockFile, inflight,
                   cancelledEarly, disposeThrew>>

\* fs.createTemporaryFile rejects
CreateLockFileRejects(c) ==
    /\ pc[c] = "createLockFile"
    /\ pc' = [pc EXCEPT ![c] = "done"]
    /\ result' = [result EXCEPT ![c] = Rejected(Error("FileSystemError", <<>>))]
    /\ exit' = [exit EXCEPT ![c] = "createFailed"]
    /\ UNCHANGED <<pythonInterpreter, disposables, terminalDisposed, command,
                   args, cancel, sent, lockFile, watcher, inflight,
                   cancelledEarly, disposeThrew>>

\* interpreter.getActiveInterpreter resolves; the helper invocation is sent
GetActiveInterpreterResolves(c, active) ==
    /\ pc[c] = "getActiveInterpreter"
    /\ sent' = [sent EXCEPT ![c] = Append(@, RewrittenInvocation(c, active))]
    /\ pc' = [pc EXCEPT ![c] = "terminalSend"]
    /\ UNCHANGED <<pythonInterpreter, disposables, terminalDisposed, command,
                   args, cancel, result, lockFile, watcher, inflight, exit,
                   cancelledEarly, disposeThrew>>

\* interpreter.getActiveInterpreter rejects
GetActiveInterpreterRejects(c) ==
    /\ pc[c] = "getActiveInterpreter"
    /\ Finally(c, watcher[c], Rejected(Error("InterpreterError", <<>>)),
               "interpreterFailed")
    /\ UNCHANGED <<pythonInterpreter, disposables, terminalDisposed, command,
                   args, cancel, sent, inflight,
                   cancelledEarly, disposeThrew>>

\* terminalService.sendCommand of the helper invocation resolves
TerminalSendResolves(c) ==
    /\ pc[c] = "terminalSend"
    /\ Race(c, watcher[c], cancel[c])
    /\ UNCHANGED <<pythonInterpreter, disposables, terminalDisposed, command,
                   args, cancel, sent, inflight,
                   cancelledEarly, disposeThrew>>

\* terminalService.sendCommand of the helper invocation rejects
TerminalSendRejects(c) ==
    /\ pc[c] = "terminalSend"
    /\ Finally(c, watcher[c], Rejected(Error("TerminalError", <<>>)), "sendFailed")
    /\ UNCHANGED <<pythonInterpreter, disposables, terminalDisposed, command,
                   args, cancel, sent, inflight,
                   cancelledEarly, disposeThrew>>

\* the caller cancels the token of call c
CancellationRequested(c) ==
    /\ cancel[c] = "armed"
    /\ pc[c] # "done"
    /\ cancel' = [cancel EXCEPT ![c] = "requested"]
    /\ cancelledEarly' = [cancelledEarly EXCEPT ![c] =
                             lockFile[c].content \cap {"END", "FAIL"} = {}]
    /\ IF pc[c] = "race"
       THEN Race(c, watcher[c], "requested")
       ELSE UNCHANGED <<pc, watcher, lockFile, result, exit>>
    /\ UNCHANGED <<pythonInterpreter, disposables, terminalDisposed, command,
                   args, sent, inflight, disposeThrew>>

\* ------------------------------------------------------------------------
\* The poll timer, the helper script and the runner's dispose
\* ------------------------------------------------------------------------

\* what a completed readFile delivers to the interval callback
ReadOk(source) == [ok |-> TRUE, source |-> source]
ReadFailed == [ok |-> FALSE, source |-> {}]

\* shell_exec.py, started by the terminal, writes a marker into the lock file
HelperWrites(c, marker) ==
    /\ cancel[c] # "none"
    /\ sent[c] # <<>>
    /\ lockFile[c].exists
    /\ marker \notin lockFile[c].content
    /\ lockFile' = [lockFile EXCEPT ![c].content = @ \cup {marker}]
    /\ UNCHANGED <<pythonInterpreter, disposables, terminalDisposed, pc, command,
                   args, cancel, result, sent, watcher, inflight, exit,
                   cancelledEarly, disposeThrew>>

\* the interval fires: the callback calls readFile and suspends; the read
\* sees the contents of the file, or fails
IntervalFires(c, ok) ==
    /\ watcher[c].timer
    /\ BagCardinality(inflight[c]) < MaxInFlight
    /\ ok => lockFile[c].exists
    /\ inflight' = [inflight EXCEPT ![c] =
                       @ (+) SetToBag({IF ok THEN ReadOk(lockFile[c].content)
                                       ELSE ReadFailed})]
    /\ UNCHANGED <<pythonInterpreter, disposables, terminalDisposed, pc, command,
                   args, cancel, result, sent, lockFile, watcher, exit,
                   cancelledEarly, disposeThrew>>

\* the callback giving up on a failed read: it clears the interval
ReadFileSettlesFailureStops(c, read) ==
    /\ BagIn(read, inflight[c])
    /\ inflight' = [inflight EXCEPT ![c] = @ (-) SetToBag({read})]
    /\ IF read.ok
       THEN LET w == CompletedHook(watcher[c],
                        StateUpdate(watcher[c], read.source, command[c], args[c]))
            IN  IF pc[c] = "race"
                THEN Race(c, w, cancel[c])
                ELSE /\ watcher' = [watcher EXCEPT ![c] = w]
                     /\ UNCHANGED <<pc, lockFile, result, exit>>
       ELSE /\ watcher' = [watcher EXCEPT ![c] = dispose(@)]
            /\ UNCHANGED <<pc, lockFile, result, exit>>
    /\ UNCHANGED <<pythonInterpreter, disposables, terminalDisposed, command,
                   args, cancel, sent,
                   cancelledEarly, disposeThrew>>

\* readFile settles and the interval callback runs to its end; a settlement
\* of the watcher runs its finally hook and resumes a sendCommand in the race
ReadFileSettles(c, read) ==
    /\ BagIn(read, inflight[c])
    /\ inflight' = [inflight EXCEPT ![c] = @ (-) SetToBag({read})]
    /\ IF read.ok
       THEN LET w == CompletedHook(watcher[c],
                        StateUpdate(watcher[c], read.source, command[c], args[c]))
            IN  IF pc[c] = "race"
                THEN Race(c, w, cancel[c])
                ELSE /\ watcher' = [watcher EXCEPT ![c] = w]
                     /\ UNCHANGED <<pc, lockFile, result, exit>>
       ELSE UNCHANGED <<pc, lockFile, result, exit, watcher>>
    /\ UNCHANGED <<pythonInterpreter, disposables, terminalDisposed, command,
                   args, cancel, sent,
                   cancelledEarly, disposeThrew>>

RECURSIVE DisposeAllUncaught(_, _)
\* the while loop without its try/catch: the first dispose() that throws
\* ends the loop and the error leaves dispose()
DisposeAllUncaught(list, files) ==
    IF list = <<>> THEN [disposables |-> list, lockFile |-> files, threw |-> FALSE]
    ELSE LET disposed == [files EXCEPT ![Head(list)] = TemporaryFileDispose(@)]
         IN  IF files[Head(list)].throws
             THEN [disposables |-> Tail(list), lockFile |-> disposed, threw |-> TRUE]
             ELSE DisposeAllUncaught(Tail(list), disposed)

RECURSIVE DisposeAll(_, _)
\* the while loop of dispose(): shifts and disposes each disposable until the
\* list is empty; an error thrown by a dispose() is caught and ignored
DisposeAll(list, files) ==
    IF list = <<>> THEN [disposables |-> list, lockFile |-> files, threw |-> FALSE]
    ELSE DisposeAll(Tail(list),
                    [files EXCEPT ![Head(list)] = TemporaryFileDispose(@)])

\* a runner that also keeps the watchers in its list: dispose() clears the
\* timers of the calls whose lock file it releases
DisposeStopsWatchers ==
    /\ terminalDisposed < MaxRunnerDispose
    /\ terminalDisposed' = terminalDisposed + 1
    /\ LET drained == DisposeAll(disposables, lockFile)
       IN  /\ lockFile' = drained.lockFile
           /\ disposables' = drained.disposables
           /\ disposeThrew' = (disposeThrew \/ drained.threw)
    /\ watcher' = [c \in Calls |->
                     IF \E i \in 1..Len(disposables) : disposables[i] = c
                     THEN dispose(watcher[c]) ELSE watcher[c]]
    /\ UNCHANGED <<pythonInterpreter, pc, command, args, cancel, result, sent,
                   inflight, exit, cancelledEarly>>

\* SynchronousTerminalService.dispose()
Dispose ==
    /\ terminalDisposed < MaxRunnerDispose
    /\ terminalDisposed' = terminalDisposed + 1
    /\ LET drained == DisposeAll(disposables, lockFile)
       IN  /\ lockFile' = drained.lockFile
           /\ disposables' = drained.disposables
           /\ disposeThrew' = (disposeThrew \/ drained.threw)
    /\ UNCHANGED <<pythonInterpreter, pc, command, args, cancel, result, sent,
                   watcher, inflight, exit, cancelledEarly>>

\* ------------------------------------------------------------------------
\* Specifications
\* ------------------------------------------------------------------------
Reads == {ReadFailed} \cup {ReadOk(s) : s \in SUBSET Markers}

Next ==
    \/ \E c \in Solo, cmd \in Commands, a \in ArgLists, withCancel \in BOOLEAN :
          SendCommand(c, cmd, a, withCancel)
    \/ \E c \in Solo, ok \in BOOLEAN : ForwardSettles(c, ok)
    \/ \E c \in Solo, throws \in BOOLEAN : CreateLockFileResolves(c, throws)
    \/ \E c \in Solo : CreateLockFileRejects(c)
    \/ \E c \in Solo, active \in ActiveInterpreters :
          GetActiveInterpreterResolves(c, active)
    \/ \E c \in Solo : GetActiveInterpreterRejects(c)
    \/ \E c \in Solo : TerminalSendResolves(c)
    \/ \E c \in Solo : TerminalSendRejects(c)
    \/ \E c \in Solo : CancellationRequested(c)
    \/ \E c \in Solo, marker \in Markers : HelperWrites(c, marker)
    \/ \E c \in Solo, ok \in BOOLEAN : IntervalFires(c, ok)
    \/ \E c \in Solo, read \in Reads : ReadFileSettles(c, read)
    \/ Dispose

\* every behaviour of one sendCommand call, its watcher, the helper script,
\* the caller's cancellation and the runner's dispose
Spec == Init /\ [][Next]_vars

\* The poll timer keeps firing while it is set, a read of an existing file
\* succeeds again and again, and every read settles.
PollFairness ==
    \A c \in Solo :
        /\ SF_vars(IntervalFires(c, TRUE))
        /\ \A read \in Reads : WF_vars(ReadFileSettles(c, read))

\* A submission with a cancellation token that is never cancelled, whose
\* collaborators (file system, interpreter service, terminal) all succeed,
\* on a runner that is not disposed meanwhile.
NextFair ==
    \/ \E c \in Solo, cmd \in Commands, a \in ArgLists : SendCommand(c, cmd, a, TRUE)
    \/ \E c \in Solo : CreateLockFileResolves(c, FALSE)
    \/ \E c \in Solo, active \in ActiveInterpreters :
          GetActiveInterpreterResolves(c, active)
    \/ \E c \in Solo : TerminalSendResolves(c)
    \/ \E c \in Solo, marker \in Markers : HelperWrites(c, marker)
    \/ \E c \in Solo, ok \in BOOLEAN : IntervalFires(c, ok)
    \/ \E c \in Solo, read \in Reads : ReadFileSettles(c, read)

FairSpec ==
    /\ Init
    /\ [][NextFair]_vars
    /\ PollFairness
    /\ \A c \in Solo :
          /\ WF_vars(CreateLockFileResolves(c, FALSE))
          /\ WF_vars(\E active \in ActiveInterpreters :
                        GetActiveInterpreterResolves(c, active))
          /\ WF_vars(TerminalSendResolves(c))

\* A watcher polling a lock file whose contents no longer change: the state
\* of a submission whose helper invocation has been sent, with any markers
\* written, while the terminal send has not returned and nothing cancels or
\* disposes.
InitWatcher ==
    \E cmd \in Commands, a \in ArgLists, source \in SUBSET Markers,
       override \in Overrides \ {Undefined} :
        /\ pythonInterpreter = override
        /\ disposables = <<1>>
        /\ terminalDisposed = 0
        /\ pc = [c \in Calls |-> IF c \in Solo THEN "terminalSend" ELSE "idle"]
        /\ command = [c \in Calls |-> IF c \in Solo THEN cmd ELSE <<>>]
        /\ args = [c \in Calls |-> IF c \in Solo THEN a ELSE <<>>]
        /\ cancel = [c \in Calls |-> IF c \in Solo THEN "armed" ELSE "none"]
        /\ result = [c \in Calls |-> Pending]
        /\ sent = [c \in Calls |->
                     IF c \in Solo
                     THEN <<Invocation(cmd, a, FilePath(c), override)>> ELSE <<>>]
        /\ lockFile = [c \in Calls |->
                         IF c \in Solo
                         THEN [NewFile(FALSE) EXCEPT !.content = source]
                         ELSE NoFile]
        /\ watcher = [c \in Calls |->
                        IF c \in Solo THEN NewExecutionState ELSE NoWatcher]
        /\ inflight = [c \in Calls |-> EmptyBag]
        /\ exit = [c \in Calls |-> "none"]
        /\ cancelledEarly = [c \in Calls |-> FALSE]
    /\ disposeThrew = FALSE

NextWatcher ==
    \/ \E c \in Solo, ok \in BOOLEAN : IntervalFires(c, ok)
    \/ \E c \in Solo, read \in Reads : ReadFileSettles(c, read)

WatcherSpec == InitWatcher /\ [][NextWatcher]_vars /\ PollFairness

\* the states WatcherSpec starts in are states of Spec
WatcherStart ==
    /\ \A c \in Solo :
          /\ pc[c] = "terminalSend"
          /\ watcher[c] = NewExecutionState
          /\ inflight[c] = EmptyBag
          /\ lockFile[c].content = {"END", "FAIL"}
          /\ ~lockFile[c].throws
    /\ disposables = <<1>>
    /\ terminalDisposed = 0

\* ------------------------------------------------------------------------
\* Properties
\* ------------------------------------------------------------------------

HasTerminalMarker(source) == includes(source, "END") \/ includes(source, "FAIL")

\* C1: a call with a token that is never cancelled, whose helper wrote START
\* and then FAIL and whose watcher rejected, has rejected with the watcher's
\* error, which carries the command text (the release of the file succeeding).
C1_RejectsWithWatcherError ==
    \A c \in Calls :
        ( /\ pc[c] = "done"
          /\ exit[c] = "watcher"
          /\ cancel[c] = "armed"
          /\ lockFile[c].content = {"START", "FAIL"}
          /\ ~lockFile[c].throws
          /\ watcher[c].deferred.status = "rejected" )
        => result[c] = Rejected(CommandFailed(command[c], args[c]))

C3_EventuallyResolves ==
    \A c \in Calls :
        ( /\ cancel[c] = "armed"
          /\ {"START", "END"} \subseteq lockFile[c].content
          /\ ~includes(lockFile[c].content, "FAIL") )
        ~> ( \/ /\ result[c] = Resolved
                /\ lockFile[c].disposeCalls >= 1
                /\ ~lockFile[c].exists
             \/ includes(lockFile[c].content, "FAIL") )

C3_Witness ==
    \E c \in Calls :
        /\ cancel[c] = "armed"
        /\ lockFile[c].content = {"START", "END"}
        /\ exit[c] = "watcher"
        /\ watcher[c].deferred = Resolved
        /\ result[c] = Resolved
        /\ ~lockFile[c].exists

\* C4: whenever the promise of a call that created its lock file has settled,
\* on whichever path, dispose() of its watcher and dispose() of its lock file
\* have been called, and the poll timer is cleared.
C4_CleanupOnEveryExit ==
    \A c \in Calls :
        (result[c].status # "pending" /\ lockFile[c].created)
        => /\ watcher[c].disposeCalls >= 1
           /\ lockFile[c].disposeCalls >= 1
           /\ ~watcher[c].timer

C4_Witness ==
    \E c \in Calls :
        /\ exit[c] = "sendFailed"
        /\ result[c].status = "rejected"
        /\ watcher[c].disposeCalls = 1
        /\ lockFile[c].disposeCalls = 1
        /\ ~lockFile[c].exists

\* C5: a call without a token has sent exactly its own command and args to
\* the terminal, has created no lock file, no watcher and no poll, and stays
\* pending exactly until the forwarded send settles, whose outcome it takes.
C5_ForwardsUnchanged ==
    \A c \in Calls :
        (pc[c] # "idle" /\ cancel[c] = "none")
        => /\ sent[c] = <<[command |-> command[c], args |-> args[c]]>>
           /\ lockFile[c] = NoFile
           /\ watcher[c] = NoWatcher
           /\ inflight[c] = EmptyBag
           /\ \A i \in 1..Len(disposables) : disposables[i] # c
           /\ pc[c] \in {"forward", "done"}
           /\ pc[c] = "forward" <=> result[c].status = "pending"
           /\ pc[c] = "done" => exit[c] = "forwarded"

C5_Witness ==
    \E c \in Calls :
        /\ cancel[c] = "none"
        /\ pc[c] = "done"
        /\ result[c] = Resolved
        /\ Contains(command[c], SPACE)
        /\ args[c] # <<>>

\* C6: whenever the terminal has received the helper invocation of a call
\* with a token, the lock file has been created and the watcher constructed,
\* its poll timer set unless a dispose has cleared it since.
C6_WatcherBeforeSend ==
    \A c \in Calls :
        (cancel[c] # "none" /\ sent[c] # <<>>)
        => /\ lockFile[c].created
           /\ watcher[c].constructed
           /\ watcher[c].timer \/ watcher[c].disposeCalls >= 1 \/ watcher[c].hookRan

C6_Witness ==
    \E c \in Calls :
        /\ pc[c] = "terminalSend"
        /\ Len(sent[c]) = 1
        /\ lockFile[c].exists
        /\ watcher[c].timer
        /\ inflight[c] = EmptyBag

\* C7: a watcher over a lock file whose contents contain FAIL, with or
\* without START and END, never resolves and eventually rejects.
C7_FailRejects ==
    \A c \in Calls :
        /\ [](includes(lockFile[c].content, "FAIL")
               => watcher[c].deferred.status # "resolved")
        /\ (watcher[c].constructed /\ includes(lockFile[c].content, "FAIL"))
           ~> (watcher[c].deferred = Rejected(CommandFailed(command[c], args[c])))

C7_Witness ==
    \E c \in Calls :
        /\ lockFile[c].content = {"END", "FAIL"}
        /\ watcher[c].deferred.status = "rejected"
        /\ ~watcher[c].timer
        /\ watcher[c].disposeCalls = 0

\* C8: a watcher over a lock file whose contents contain END and not FAIL,
\* with or without START, eventually resolves.
C8_EndResolves ==
    \A c \in Calls :
        ( /\ watcher[c].constructed
          /\ includes(lockFile[c].content, "END")
          /\ ~includes(lockFile[c].content, "FAIL") )
        ~> (watcher[c].deferred = Resolved)

C8_Witness ==
    \E c \in Calls :
        /\ lockFile[c].content = {"END"}
        /\ watcher[c].state = completed
        /\ watcher[c].deferred = Resolved
        /\ watcher[c].disposeCalls = 0

\* the step is the end of a poll of c's watcher whose read returned contents
\* with END or FAIL
TerminalReadSettles(c) ==
    \E read \in BagToSet(inflight[c]) :
        /\ read.ok
        /\ HasTerminalMarker(read.source)
        /\ inflight'[c] = inflight[c] (-) SetToBag({read})

\* C9: only the end of a poll whose read returned contents with END or FAIL
\* settles a watcher, and the poll timer of an unsettled watcher is cleared
\* only by such a poll or by a call of dispose() from outside the watcher.
C9_PendingUntilTerminalMarker ==
    [][ \A c \in Calls :
          ( /\ watcher[c].deferred.status = "pending"
            /\ \/ watcher'[c].deferred.status # "pending"
               \/ /\ watcher[c].timer
                  /\ ~watcher'[c].timer
                  /\ watcher'[c].disposeCalls = watcher[c].disposeCalls )
          => TerminalReadSettles(c) ]_vars

C9_Witness ==
    \E c \in Calls :
        /\ watcher[c].state = started
        /\ lockFile[c].content = {"START"}
        /\ inflight[c] = EmptyBag
        /\ watcher[c].deferred.status = "pending"
        /\ watcher[c].timer

\* C10: a settled watcher keeps its outcome in every later step.
C10_SettlesOnce ==
    [][ \A c \in Calls :
          watcher[c].deferred.status # "pending"
          => watcher'[c].deferred = watcher[c].deferred ]_vars

C10_Witness ==
    \E c \in Calls :
        /\ watcher[c].deferred = Resolved
        /\ HasFlag(watcher[c].state, errored)

\* the watcher of call c has been disposed: dispose() has cleared its interval
Disposed(c) == watcher[c].constructed /\ ~watcher[c].disposable

\* C11: once dispose() of a watcher has returned, no poll callback reads the
\* signal file, updates the watcher's state or settles its completed future,
\* and further dispose() calls change nothing.
C11_NoPollingAfterDispose ==
    [][ \A c \in Calls :
          Disposed(c)
          => /\ watcher'[c].state = watcher[c].state
             /\ watcher'[c].deferred = watcher[c].deferred
             /\ ~watcher'[c].timer
             /\ inflight'[c] \sqsubseteq inflight[c] ]_vars

\* C12: when creating the signal file fails, sendCommand rejects with that
\* failure; the terminal got nothing from the call, no watcher was built and
\* no poll timer runs.
C12_CreateFailureRejectsEarly ==
    \A c \in Calls :
        exit[c] = "createFailed"
        => /\ result[c] = Rejected(Error("FileSystemError", <<>>))
           /\ sent[c] = <<>>
           /\ watcher[c] = NoWatcher
           /\ inflight[c] = EmptyBag
           /\ lockFile[c] = NoFile
           /\ \A i \in 1..Len(disposables) : disposables[i] # c

C12_Witness ==
    \E c \in Calls :
        /\ exit[c] = "createFailed"
        /\ pc[c] = "done"
        /\ cancel[c] # "none"
        /\ result[c].status = "rejected"

\* ------------------------------------------------------------------------
\* Two submissions on one runner
\* ------------------------------------------------------------------------

\* a runner constructed with an interpreter override
InitPair ==
    /\ Init
    /\ pythonInterpreter.defined

\* Two sendCommand calls with cancellation tokens running concurrently on
\* one runner whose collaborators succeed: each has its lock file, watcher
\* and token; the helper of each writes one terminal marker; each watcher
\* has at most one poll awaiting its read; the runner may be disposed.
NextPair ==
    \/ \E c \in Calls : SendCommand(c, <<"build">>, <<>>, TRUE)
    \/ \E c \in Calls, throws \in BOOLEAN : CreateLockFileResolves(c, throws)
    \/ \E c \in Calls : TerminalSendResolves(c)
    \/ \E c \in Calls : CancellationRequested(c)
    \/ \E c \in Calls, marker \in {"END", "FAIL"} :
          lockFile[c].content = {} /\ HelperWrites(c, marker)
    \/ \E c \in Calls : inflight[c] = EmptyBag /\ IntervalFires(c, TRUE)
    \/ \E c \in Calls, read \in Reads : ReadFileSettles(c, read)
    \/ Dispose

PairSpec == InitPair /\ [][NextPair]_vars

\* the calls whose lock file is in the runner's list of disposables
Held == {disposables[i] : i \in 1..Len(disposables)}

\* C13: a dispose() of the runner disposes the terminal and every disposable
\* of the list, leaves the list empty, and a dispose() that throws neither
\* keeps the others from being disposed nor makes the runner's dispose() throw.
C13_DisposeDrainsList ==
    [][ terminalDisposed' # terminalDisposed
        => /\ terminalDisposed' = terminalDisposed + 1
           /\ disposables' = <<>>
           /\ ~disposeThrew'
           /\ \A c \in Calls :
                 lockFile'[c] = IF c \in Held
                                THEN TemporaryFileDispose(lockFile[c])
                                ELSE lockFile[c] ]_vars

C13_Witness ==
    \E c, d \in Calls :
        /\ terminalDisposed = 1
        /\ disposables = <<>>
        /\ ~disposeThrew
        /\ pc[c] # "done" /\ pc[d] # "done"
        /\ lockFile[c].throws /\ lockFile[c].disposeCalls = 1 /\ lockFile[c].exists
        /\ ~lockFile[d].throws /\ lockFile[d].disposeCalls = 1
        /\ lockFile[d].created /\ ~lockFile[d].exists

\* C14: once a sendCommand call with a cancellation token has returned, the
\* runner holds nothing of it: its timer is cleared, its lock file is no
\* longer in the list of disposables, and the file is disposed only once.
C14_NothingHeldAfterReturn ==
    \A c \in Calls :
        pc[c] = "done" /\ cancel[c] # "none"
        => /\ ~watcher[c].timer
           /\ c \notin Held
           /\ lockFile[c].disposeCalls <= 1

\* the lock file of call c gets a marker, or call c is cancelled or leaves
\* through its finally block, in this step
ActsOn(c) ==
    \/ lockFile'[c].content # lockFile[c].content
    \/ cancel'[c] # cancel[c]
    \/ pc'[c] = "done" /\ pc[c] # "done"

\* C15: concurrent sendCommand calls have each their own lock file and
\* watcher: a watcher settles only on a marker of its own file, and a marker
\* written for, a cancellation of, or the cleanup of one call leaves the
\* watcher, the lock file and the progress of every other call as they were.
C15_CallsAreIsolated ==
    /\ [](\A c \in Calls :
            /\ watcher[c].deferred.status = "resolved"
               => "END" \in lockFile[c].content
            /\ watcher[c].deferred.status = "rejected"
               => "FAIL" \in lockFile[c].content
            /\ \A d \in Calls \ {c} :
                  sent[c] # <<>> /\ sent[d] # <<>>
                  => sent[c][1].args[Len(sent[c][1].args)]
                     # sent[d][1].args[Len(sent[d][1].args)])
    /\ [][ \A c \in Calls : \A d \in Calls \ {c} :
             ActsOn(c) /\ terminalDisposed' = terminalDisposed
             => /\ watcher'[d] = watcher[d]
                /\ lockFile'[d] = lockFile[d]
                /\ pc'[d] = pc[d]
                /\ result'[d] = result[d] ]_vars

C15_Witness ==
    \E c \in Calls : \E d \in Calls \ {c} :
        /\ pc[c] = "done"
        /\ exit[c] = "cancelled"
        /\ "FAIL" \in lockFile[c].content
        /\ ~lockFile[c].exists
        /\ pc[d] = "race"
        /\ watcher[d].timer
        /\ watcher[d].deferred = Pending
        /\ lockFile[d].exists
        /\ lockFile[d].content = {}
        /\ result[d] = Pending

\* C16: the poll timer of a watcher runs only while the watcher is
\* constructed, unsettled and not disposed; a settlement clears the timer
\* through the watcher's own hook, and once the hook has run no poll starts.
C16_TimerOnlyWhileUnsettled ==
    /\ [](\A c \in Calls :
            /\ watcher[c].timer
               => /\ watcher[c].constructed
                  /\ watcher[c].disposable
                  /\ watcher[c].deferred = Pending
            /\ watcher[c].deferred # Pending
               => watcher[c].hookRan /\ ~watcher[c].timer)
    /\ [][ \A c \in Calls :
             watcher[c].hookRan
             => /\ ~watcher'[c].timer
                /\ inflight'[c] \sqsubseteq inflight[c] ]_vars

C16_Witness ==
    \E c \in Calls :
        /\ pc[c] = "terminalSend"
        /\ watcher[c].deferred # Pending
        /\ watcher[c].hookRan
        /\ watcher[c].disposeCalls = 0
        /\ ~watcher[c].timer
        /\ terminalDisposed = 0

\* the poll of call c that was awaiting read finishes in this step
PollCompletes(c, read) ==
    /\ BagIn(read, inflight[c])
    /\ inflight'[c] = inflight[c] (-) SetToBag({read})

\* C17: after every poll that read the file, the watcher's state is the value
\* derived from the contents just read alone: started iff START was read,
\* errored iff FAIL, completed iff END or FAIL; errored never stands without
\* completed.
C17_StateRecomputedPerPoll ==
    /\ [][ \A c \in Calls : \A read \in Reads :
             PollCompletes(c, read) /\ read.ok
             => /\ HasFlag(watcher'[c].state, started) <=> "START" \in read.source
                /\ HasFlag(watcher'[c].state, errored) <=> "FAIL" \in read.source
                /\ HasFlag(watcher'[c].state, completed)
                   <=> ("END" \in read.source \/ "FAIL" \in read.source) ]_vars
    /\ [](\A c \in Calls :
            HasFlag(watcher[c].state, errored)
            => HasFlag(watcher[c].state, completed))

\* a state that has lost its completed flag: the watcher resolved on a read
\* with END, and a read started earlier, holding START only, finished later
C17_Witness ==
    \E c \in Calls :
        /\ watcher[c].deferred = Resolved
        /\ watcher[c].state = started
        /\ inflight[c] = EmptyBag

\* the interpreters a helper invocation may name: the override's path, else
\* the path of an active interpreter, else the literal python
InterpreterChoices ==
    IF pythonInterpreter.defined /\ pythonInterpreter.path # <<>>
    THEN {pythonInterpreter.path}
    ELSE {PythonLiteral} \cup {i.path : i \in {j \in ActiveInterpreters : j.defined}}

\* C18: a call with a token sends exactly one invocation: the interpreter,
\* then the quoted helper script, the quoted command, every caller argument
\* quoted, and the quoted lock file path as the last token.
C18_EveryArgumentQuoted ==
    \A c \in Calls :
        cancel[c] # "none" /\ sent[c] # <<>>
        => /\ Len(sent[c]) = 1
           /\ sent[c][1].command \in InterpreterChoices
           /\ sent[c][1].args =
                 <<fileToCommandArgument(shellExecFile),
                   fileToCommandArgument(command[c])>>
                 \o [i \in 1..Len(args[c]) |-> fileToCommandArgument(args[c][i])]
                 \o <<fileToCommandArgument(FilePath(c))>>

\* C19: a poll whose read fails leaves the watcher as it was: state and
\* completed future unchanged, timer still set; the watcher polls on, and a
\* later read that finds END or FAIL still settles it.
C19_FailedReadIsSkipped ==
    /\ [][ \A c \in Calls :
             PollCompletes(c, ReadFailed) => watcher'[c] = watcher[c] ]_vars
    /\ \A c \in Solo :
          (/\ BagIn(ReadFailed, inflight[c])
           /\ watcher[c].deferred = Pending
           /\ HasTerminalMarker(lockFile[c].content))
          ~> (watcher[c].deferred # Pending)

\* the read of a poll has failed while the file holds END and the watcher is
\* unsettled with its timer set
C19_Witness ==
    \E c \in Calls :
        /\ BagIn(ReadFailed, inflight[c])
        /\ BagCardinality(inflight[c]) = 1
        /\ watcher[c].deferred = Pending
        /\ watcher[c].timer
        /\ watcher[c].state = notStarted
        /\ lockFile[c].content = {"START", "END"}

\* C20: a dispose() of the runner while a sendCommand call is waiting
\* releases the call's lock file but leaves its watcher, timer and wait as
\* they are; the call leaves the wait only when its watcher settles or its
\* token is cancelled, and its cleanup then disposes the watcher and
\* releases the lock file a second time.
C20_RunnerDisposeLeavesWait ==
    /\ [][ terminalDisposed' # terminalDisposed
           => /\ watcher' = watcher
              /\ inflight' = inflight
              /\ pc' = pc
              /\ result' = result
              /\ \A c \in Held :
                    /\ lockFile'[c].disposeCalls = lockFile[c].disposeCalls + 1
                    /\ ~lockFile[c].throws => ~lockFile'[c].exists ]_vars
    /\ [][ \A c \in Calls :
             pc[c] = "race" /\ pc'[c] # "race"
             => /\ pc'[c] = "done"
                /\ watcher'[c].deferred # Pending \/ cancel'[c] = "requested"
                /\ ~watcher'[c].timer
                /\ watcher'[c].disposeCalls = 1
                /\ lockFile'[c].disposeCalls = lockFile[c].disposeCalls + 1
                /\ c \notin Held => lockFile'[c].disposeCalls = 2 ]_vars

C20_Witness ==
    \E c \in Calls :
        /\ pc[c] = "race"
        /\ terminalDisposed = 1
        /\ c \notin Held
        /\ lockFile[c].disposeCalls = 1
        /\ ~lockFile[c].exists
        /\ watcher[c].timer
        /\ watcher[c].deferred = Pending
        /\ watcher[c].disposeCalls = 0
        /\ result[c] = Pending

====
